---- MODULE Spec2Model ----
(***************************************************************************)
(* Open WebUI knowledge uploader: the API client of openwebui_uploader.py  *)
(* (endpoint discovery, collection lookup and creation, file upload, file  *)
(* linking with retries, batch orchestration) as a state machine.  One     *)
(* client instance; its public methods are called one after the other.     *)
(***************************************************************************)
EXTENDS Integers, Sequences, FiniteSets, TLC

\* ------------------------------------------------------------------ bounds
\* longest file_paths list handed to upload_files_to_knowledge
MaxFiles == 2
\* largest `retries` argument of a direct add_file_to_knowledge call
MaxRetries == 4

\* ------------------------------------------------------- program constants
\* add_file_to_knowledge(retries=3)
DefaultRetries == 3
\* add_file_to_knowledge(retry_delay=5.0), in tenths of a second
DefaultRetryDelay == 50
\* time.sleep(0.5) between upload and linking, in tenths of a second
SettleDelay == 5

\* Python's None, for ids and return values (a string like the ids)
NoneId == "None"
\* Python's None where a response object is expected
None == [none |-> TRUE]

\* ------------------------------------------------------------- file names
\* Strings whose characters matter are sequences of one-character strings.
UpperChars == <<"A","B","C","D","E","F","G","H","I","J","K","L","M",
                "N","O","P","Q","R","S","T","U","V","W","X","Y","Z">>
LowerChars == <<"a","b","c","d","e","f","g","h","i","j","k","l","m",
                "n","o","p","q","r","s","t","u","v","w","x","y","z">>

\* str.lower() on one character
lower_char(c) ==
    IF \E k \in 1..Len(UpperChars) : UpperChars[k] = c
    THEN LowerChars[CHOOSE k \in 1..Len(UpperChars) : UpperChars[k] = c]
    ELSE c

\* str.lower()
lower(s) == [k \in 1..Len(s) |-> lower_char(s[k])]

\* str.rfind(c): the last position of c in s, 0 when absent (Python: -1)
rfind(s, c) ==
    IF \E k \in 1..Len(s) : s[k] = c
    THEN CHOOSE k \in 1..Len(s) : s[k] = c /\ \A j \in (k+1)..Len(s) : s[j] # c
    ELSE 0

\* Path(file_path).name and os.path.basename: the last path component
path_name(s) == SubSeq(s, rfind(s, "/") + 1, Len(s))

\* Path(file_path).suffix: from the last dot of the name, unless that dot
\* is the first or the last character of the name
path_suffix(s) ==
    LET name == path_name(s)
        d == rfind(name, ".")
    IN  IF 1 < d /\ d < Len(name) THEN SubSeq(name, d, Len(name)) ELSE <<>>

\* the local paths the callers pass, by number
Paths == <<
    <<"a", ".", "m", "d">>,  \* 1: a.md
    <<"d", "o", "c", "s", "/", "B", ".", "P", "D", "F">>,  \* 2: docs/B.PDF
    <<".", "D", "S", "_", "S", "t", "o", "r", "e">>,  \* 3: .DS_Store
    <<"p", "i", "c", "s", "/", "T", "H", "U", "M", "B", "S", ".", "D", "B">>,  \* 4: pics/THUMBS.DB
    <<"x", ".", "e", "x", "e">>,  \* 5: x.exe
    <<"n", "o", "t", "e", "s">>,  \* 6: notes
    <<".", "m", "d">>,  \* 7: .md
    <<"c", ".", "D", "o", "c", "X">>,  \* 8: c.DocX
    <<"d", ".", "d", "o", "c">>,  \* 9: d.doc
    <<"e", ".", "t", "x", "t">>,  \* 10: e.txt
    <<"t", "h", "u", "m", "b", "s", ".", "d", "b", ".", "t", "x", "t">>,  \* 11: thumbs.db.txt
    <<"v", "1", ".", "2", "/", "r", "e", "a", "d", "m", "e">>,  \* 12: v1.2/readme
    <<"f", ".", "m", "d", ".", "b", "a", "k">>,  \* 13: f.md.bak
    <<"g", ".", "m", "d", "x">>   \* 14: g.mdx
>>

PathIds == 1..Len(Paths)

system_files == { <<".","d","s","_","s","t","o","r","e">>,
                  <<"t","h","u","m","b","s",".","d","b">> }

allowed_extensions == { <<".","m","d">>, <<".","t","x","t">>, <<".","p","d","f">>,
                        <<".","d","o","c">>, <<".","d","o","c","x">> }

\* is_allowed_file(file_path), file_path a character sequence
is_allowed_file_any_extension(file_path) ==
    lower(path_name(file_path)) \notin system_files

is_allowed_file(file_path) ==
    LET filename == lower(path_name(file_path))
        extension == lower(path_suffix(file_path))
    IN  IF filename \in system_files THEN FALSE
        ELSE extension \in allowed_extensions

\* ------------------------------------------------------------- the remote
\* the collection name and description the caller passes
KnowledgeName == "docs"
Description == "desc"

\* A JSON body: unparseable text, an array of collections, or an object
\* with (or without: NoneId) an "id" key.
Unparseable == [kind |-> "bad"]
JsonList(items) == [kind |-> "list", items |-> items]
JsonObj(id) == [kind |-> "obj", id |-> id]

\* What the remote answers to one request: status 0 is a connection error
\* or timeout (requests raises), html is the content type being text/html.
Resp(status, html, body) == [status |-> status, html |-> html, body |-> body]
NetErr == Resp(0, FALSE, Unparseable)

Coll(name, id) == [name |-> name, id |-> id]

ListResponses ==
    { NetErr,
      Resp(404, FALSE, JsonObj(NoneId)),
      Resp(200, TRUE, JsonList(<<Coll("docs", "k1")>>)),
      Resp(200, FALSE, Unparseable),
      Resp(300, FALSE, Unparseable),
      Resp(200, FALSE, JsonList(<<>>)),
      Resp(200, FALSE, JsonList(<<Coll("Docs", "k2"), Coll("docs", "k1")>>)),
      Resp(300, FALSE, JsonList(<<Coll("Docs", "k2"), Coll("docs", "k1")>>)),
      Resp(200, FALSE, JsonList(<<Coll("docs", NoneId)>>)),
      Resp(200, FALSE, JsonObj("k1")) }

CreateResponses ==
    { NetErr,
      Resp(404, FALSE, JsonObj("k2")),
      Resp(200, TRUE, JsonObj("k2")),
      Resp(200, FALSE, Unparseable),
      Resp(200, FALSE, JsonObj("k2")),
      Resp(200, FALSE, JsonObj(NoneId)),
      Resp(200, FALSE, JsonList(<<>>)) }

UploadResponses ==
    { NetErr,
      Resp(500, FALSE, JsonObj("f1")),
      Resp(200, FALSE, Unparseable),
      Resp(200, TRUE, Unparseable),
      Resp(200, FALSE, JsonObj("f1")),
      Resp(300, FALSE, JsonObj("f1")),
      Resp(200, FALSE, JsonObj("f2")),
      Resp(200, FALSE, JsonObj(NoneId)),
      Resp(200, FALSE, JsonList(<<>>)) }

LinkResponses ==
    { NetErr,
      Resp(400, FALSE, JsonObj(NoneId)),
      Resp(200, FALSE, JsonObj(NoneId)) }

\* _make_request: the response, or None when requests raised (connection
\* error, timeout) or raise_for_status() did (a 4xx or 5xx status)
_make_request_ignores_status(r) ==
    IF r.status = 0 THEN None ELSE r

_make_request(r) ==
    IF r.status = 0 \/ r.status >= 400 THEN None ELSE r

\* Python truthiness of an id (`if not knowledge_id`, `if file_id`)
Truthy(id) == id # NoneId /\ id # ""

\* an endpoint path is a sequence of segments; <<>> is "no path" (None)
list_endpoints_reordered ==
    << <<"api", "v1", "knowledge">>,
       <<"api", "v1", "knowledges">>,
       <<"api", "v1", "workspace", "knowledge">> >>

list_endpoints ==
    << <<"api", "v1", "workspace", "knowledge">>,
       <<"api", "v1", "knowledges">>,
       <<"api", "v1", "knowledge">> >>

\* create_knowledge_collection's endpoints_to_try, given the cached path
create_endpoints_ignores_cached(cached) ==
    << <<"api", "v1", "workspace", "knowledge", "create">>,
       <<"api", "v1", "workspace", "knowledge", "create">>,
       <<"api", "v1", "knowledges", "create">>,
       <<"api", "v1", "knowledge", "create">> >>

\* the paths the listing may be asked at
ListPaths == { list_endpoints[k] : k \in 1..Len(list_endpoints) }

\* list_knowledge_collections' endpoints_to_try: the fixed candidates,
\* whatever path is remembered
list_candidates_skip_cached(cached) ==
    SelectSeq(list_endpoints, LAMBDA e : e # cached)

list_candidates(cached) == list_endpoints

\* the remembered path's create path first, then the three literal ones
create_endpoints(cached) ==
    LET base_endpoint == IF cached # <<>> THEN cached
                         ELSE <<"api", "v1", "workspace", "knowledge">>
    IN  << Append(base_endpoint, "create"),
           <<"api", "v1", "workspace", "knowledge", "create">>,
           <<"api", "v1", "knowledges", "create">>,
           <<"api", "v1", "knowledge", "create">> >>

\* endpoint.replace("/create", "")
replace_create_keeps_suffix(endpoint) == endpoint

replace_create(endpoint) == SelectSeq(endpoint, LAMBDA seg : seg # "create")

\* the candidate loops' test of one response: a response came back, its
\* content type is not HTML and response.json() does not raise ValueError
json_response_html_unchecked(response) ==
    /\ response # None
    /\ response.body.kind # "bad"

json_response(response) ==
    /\ response # None
    /\ ~response.html
    /\ response.body.kind # "bad"

\* get_knowledge_collection_id's loop over what the listing returned:
\* the id of the first collection with the name; iterating a JSON object
\* yields its keys, and str has no .get
get_knowledge_collection_id(collections, name) ==
    IF collections.kind # "list" THEN [raised |-> TRUE, id |-> NoneId]
    ELSE LET items == collections.items
             hits == { k \in 1..Len(items) : items[k].name = name }
         IN  IF hits = {} THEN [raised |-> FALSE, id |-> NoneId]
             ELSE [raised |-> FALSE,
                   id |-> items[CHOOSE k \in hits : \A j \in hits : k <= j].id]

\* upload_file on one path: whether a request is sent, whether an exception
\* escapes, and the file id returned
upload_file_value_error_escapes(isfile, allowed, opened, r) ==
    IF ~isfile \/ ~allowed \/ ~opened
    THEN [request |-> FALSE, raised |-> FALSE, file_id |-> NoneId]
    ELSE LET response == _make_request(r)
         IN  IF response = None
             THEN [request |-> TRUE, raised |-> FALSE, file_id |-> NoneId]
             ELSE IF response.body.kind # "obj"
             THEN [request |-> TRUE, raised |-> TRUE, file_id |-> NoneId]
             ELSE [request |-> TRUE, raised |-> FALSE, file_id |-> response.body.id]

upload_file(isfile, allowed, opened, r) ==
    IF ~isfile THEN [request |-> FALSE, raised |-> FALSE, file_id |-> NoneId]
    ELSE IF ~allowed THEN [request |-> FALSE, raised |-> FALSE, file_id |-> NoneId]
    ELSE IF ~opened THEN [request |-> FALSE, raised |-> FALSE, file_id |-> NoneId]
    ELSE LET response == _make_request(r)
         IN  IF response = None
             THEN [request |-> TRUE, raised |-> FALSE, file_id |-> NoneId]
             ELSE IF response.body.kind = "bad"
             THEN [request |-> TRUE, raised |-> FALSE, file_id |-> NoneId]
             ELSE IF response.body.kind = "list"
             THEN [request |-> TRUE, raised |-> TRUE, file_id |-> NoneId]
             ELSE [request |-> TRUE, raised |-> FALSE, file_id |-> response.body.id]

\* ------------------------------------------------------------ the requests
Get(endpoint) == [ev |-> "GET", url |-> endpoint, headers |-> "headers"]
PostCreate(endpoint, name, description) ==
    [ev |-> "POST", url |-> endpoint, headers |-> "headers",
     json |-> [name |-> name, description |-> description]]
PostFile(p) ==
    [ev |-> "POST", url |-> <<"api", "v1", "files", "">>,
     headers |-> "upload_headers",
     files |-> [file |-> [filename |-> path_name(Paths[p]), path |-> p]]]
\* add_file_to_knowledge's payload
link_payload_with_metadatas(file_id_) == [file_id |-> file_id_, metadatas |-> NoneId]

link_payload(file_id) == [file_id |-> file_id]
PostLink(knowledge_id, file_id) ==
    [ev |-> "POST", url |-> <<"api", "v1", "knowledge", knowledge_id, "file", "add">>,
     headers |-> "headers", json |-> link_payload(file_id)]
Sleep(d) == [ev |-> "sleep", secs |-> d]

\* the batch-level failure results
not_found_counts_nothing(file_paths_, name) ==
    [success |-> 0, failed |-> 0, total |-> Len(file_paths_),
     errors |-> << <<"Knowledge collection not found", name>> >>]

not_created(file_paths_, name) ==
    [success |-> 0, failed |-> Len(file_paths_), total |-> Len(file_paths_),
     errors |-> << <<"Failed to create knowledge collection", name>> >>]
not_found(file_paths_, name) ==
    [success |-> 0, failed |-> Len(file_paths_), total |-> Len(file_paths_),
     errors |-> << <<"Knowledge collection not found", name>> >>]
empty_results(file_paths_) ==
    [success |-> 0, failed |-> 0, total |-> Len(file_paths_), errors |-> <<>>]

\* ---------------------------------------------------------------- state
VARIABLES
    top,                  \* the public method the caller is in, or "idle"
    pc,                   \* where the client is within it
    _knowledge_endpoint,  \* self._knowledge_endpoint; <<>> is None
    log,                  \* the requests and sleeps of the current call, in order
    endpoints_to_try,     \* the running candidate loop's list
    i,                    \* the next candidate of that loop
    resp,                 \* what _make_request returned last
    hist,                 \* what the remote answered within the running method
    fs,                   \* what upload_file found locally
    collections,          \* list_knowledge_collections' return value
    knowledge_id,         \* the collection id (looked up, created or passed)
    file_id,              \* upload_file's return value, or the id passed
    file_path,            \* the path upload_file works on
    link_ok,              \* add_file_to_knowledge's return value
    retries,              \* add_file_to_knowledge's arguments
    retry_delay,
    attempt,              \* its loop variable
    file_paths,           \* upload_files_to_knowledge's arguments
    create_if_missing,
    fpos,                 \* the batch loop's position in file_paths
    results,              \* the batch's result dictionary
    fstate,               \* per file of the batch, what its calls returned
    calls,                \* the upload_file calls of the current call, each with
                          \* the log's length when it began and what it returned
    remote,               \* per list path, the one answer the remote gives there,
                          \* for the paths where its answer does not change
    prev,                 \* what the last get_knowledge_collection_id call gave
    cli,                  \* cli.py's main: its inputs and how it ended
    exit_code             \* the process exit code, -1 while there is none

vars == << top, pc, _knowledge_endpoint, log, endpoints_to_try, i, resp, hist,
           fs, collections, knowledge_id, file_id, file_path, link_ok, retries,
           retry_delay, attempt, file_paths, create_if_missing, fpos, results,
           fstate, calls, remote, prev, cli, exit_code >>

\* what lies outside the client: the remote, the caller's record of an
\* earlier lookup, and the command line process
outer_vars == << remote, prev, cli, exit_code >>

\* the variables of the candidate loops
loop_vars == << endpoints_to_try, i >>
\* the arguments and locals of add_file_to_knowledge
link_vars == << retries, retry_delay, attempt >>
\* the arguments and locals of upload_files_to_knowledge
batch_vars == << file_paths, create_if_missing, fpos, results, fstate >>

\* an upload_file call that has begun, and the same call once it is over
Begun(p) == [path |-> p, at |-> Len(log), isfile |-> FALSE, request |-> FALSE,
             ret |-> "pending"]
Ended(c, isfile, u) ==
    [c EXCEPT !.isfile = isfile, !.request = u.request,
              !.ret = IF u.raised THEN "raised" ELSE u.file_id]

NoFs == [isfile |-> FALSE, allowed |-> FALSE, opened |-> FALSE]

\* the paths a batch is built from
BatchPaths == {1, 4}

\* all sequences over S of length at most n
RECURSIVE SeqsUpTo(_, _)
SeqsUpTo(S, n) ==
    IF n = 0 THEN { <<>> }
    ELSE LET shorter == SeqsUpTo(S, n - 1)
         IN  shorter \cup { Append(q, x) : q \in shorter, x \in S }

\* no lookup has been made yet
NoPrev == [known |-> FALSE, raised |-> FALSE, id |-> NoneId, at |-> <<>>]

\* main is not running
NoCli == [by_main |-> FALSE, how |-> "", api_key |-> "", endpoint |-> 0,
          path |-> ""]

\* a fresh client (__init__), no call running
InitClient ==
    /\ top = "idle"
    /\ pc = "idle"
    /\ _knowledge_endpoint = <<>>
    /\ log = <<>>
    /\ endpoints_to_try = <<>>
    /\ i = 0
    /\ resp = None
    /\ hist = <<>>
    /\ fs = NoFs
    /\ collections = JsonList(<<>>)
    /\ knowledge_id = NoneId
    /\ file_id = NoneId
    /\ file_path = 0
    /\ link_ok = FALSE
    /\ retries = 0
    /\ retry_delay = 0
    /\ attempt = 0
    /\ file_paths = <<>>
    /\ create_if_missing = FALSE
    /\ fpos = 0
    /\ results = empty_results(<<>>)
    /\ fstate = <<>>
    /\ calls = <<>>
    /\ prev = NoPrev
    /\ cli = NoCli
    /\ exit_code = -1

\* a remote that may answer any request in any way, each time anew
Init ==
    /\ InitClient
    /\ remote = <<>>

\* a remote whose state does not change: each list path has one answer
InitUnchangingRemote ==
    /\ InitClient
    /\ remote \in [ListPaths -> ListResponses]

\* the answers a GET of the list path may get
Answers(endpoint) ==
    IF endpoint \in DOMAIN remote THEN {remote[endpoint]} ELSE ListResponses

\* ---------------------------------------------------------------- calls
\* the caller calls list_knowledge_collections()
CallList ==
    /\ top = "idle"
    /\ top' = "list"
    /\ pc' = "list"
    /\ endpoints_to_try' = list_candidates(_knowledge_endpoint)
    /\ i' = 1
    /\ UNCHANGED calls
    /\ UNCHANGED outer_vars
    /\ UNCHANGED << _knowledge_endpoint, log, resp, hist, fs, collections,
                    knowledge_id, file_id, file_path, link_ok, link_vars,
                    batch_vars >>

\* the caller calls get_knowledge_collection_id(KnowledgeName)
CallResolve ==
    /\ top = "idle"
    /\ top' = "resolve"
    /\ pc' = "list"
    /\ endpoints_to_try' = list_candidates(_knowledge_endpoint)
    /\ i' = 1
    /\ UNCHANGED calls
    /\ UNCHANGED outer_vars
    /\ UNCHANGED << _knowledge_endpoint, log, resp, hist, fs, collections,
                    knowledge_id, file_id, file_path, link_ok, link_vars,
                    batch_vars >>

\* the caller calls create_knowledge_collection(KnowledgeName, Description)
CallCreate ==
    /\ top = "idle"
    /\ top' = "create"
    /\ pc' = "create"
    /\ endpoints_to_try' = create_endpoints(_knowledge_endpoint)
    /\ i' = 1
    /\ UNCHANGED calls
    /\ UNCHANGED outer_vars
    /\ UNCHANGED << _knowledge_endpoint, log, resp, hist, fs, collections,
                    knowledge_id, file_id, file_path, link_ok, link_vars,
                    batch_vars >>

\* the caller calls upload_file(Paths[p])
CallUpload ==
    /\ top = "idle"
    /\ \E p \in PathIds :
        /\ top' = "upload"
        /\ pc' = "upload"
        /\ file_path' = p
        /\ calls' = Append(calls, Begun(p))
    /\ UNCHANGED outer_vars
    /\ UNCHANGED << _knowledge_endpoint, log, loop_vars, resp, hist, fs,
                    collections, knowledge_id, file_id, link_ok, link_vars,
                    batch_vars >>

\* the caller calls add_file_to_knowledge(kid, fid, n, d)
CallLink ==
    /\ top = "idle"
    /\ \E kid \in {"k1", "k2"}, fid \in {"f1", "f2"}, n \in 0..MaxRetries,
          d \in {DefaultRetryDelay, 10} :
        /\ top' = "link"
        /\ pc' = "link"
        /\ knowledge_id' = kid
        /\ file_id' = fid
        /\ retries' = n
        /\ retry_delay' = d
        /\ attempt' = 0
    /\ UNCHANGED calls
    /\ UNCHANGED outer_vars
    /\ UNCHANGED << _knowledge_endpoint, log, loop_vars, resp, hist, fs,
                    collections, file_path, link_ok, batch_vars >>

\* the caller calls upload_files_to_knowledge(KnowledgeName, paths, cim,
\* Description); its first statement is the lookup by name
CallBatch ==
    /\ top = "idle"
    /\ \E paths \in SeqsUpTo(BatchPaths, MaxFiles), cim \in BOOLEAN :
        /\ top' = "batch"
        /\ pc' = "list"
        /\ file_paths' = paths
        /\ create_if_missing' = cim
        /\ fstate' = [k \in 1..Len(paths) |-> "pending"]
    /\ endpoints_to_try' = list_candidates(_knowledge_endpoint)
    /\ i' = 1
    /\ UNCHANGED calls
    /\ UNCHANGED outer_vars
    /\ UNCHANGED << _knowledge_endpoint, log, resp, hist, fs, collections,
                    knowledge_id, file_id, file_path, link_ok, link_vars, fpos,
                    results >>

\* ------------------------------------------------ list_knowledge_collections
\* one pass of the loop over endpoints_to_try: GET the candidate; return its
\* body and remember the path, or go on; after the last candidate return []
ListTry ==
    /\ pc = "list"
    /\ \E r \in Answers(endpoints_to_try[i]) :
        LET endpoint == endpoints_to_try[i]
            response == _make_request(r)
        IN  /\ log' = Append(log, Get(endpoint))
            /\ hist' = Append(hist, r)
            /\ resp' = response
            /\ IF json_response(response)
               THEN /\ _knowledge_endpoint' = endpoint
                    /\ collections' = response.body
                    /\ pc' = "list_return"
                    /\ i' = i
               ELSE /\ _knowledge_endpoint' = _knowledge_endpoint
                    /\ IF i < Len(endpoints_to_try)
                       THEN /\ i' = i + 1
                            /\ pc' = "list"
                            /\ collections' = collections
                       ELSE /\ i' = i
                            /\ pc' = "list_return"
                            /\ collections' = JsonList(<<>>)
    /\ UNCHANGED calls
    /\ UNCHANGED outer_vars
    /\ UNCHANGED << top, endpoints_to_try, fs, knowledge_id, file_id, file_path,
                    link_ok, link_vars, batch_vars >>

\* the listing returns: to the caller, or into get_knowledge_collection_id,
\* which searches it for the name
ListReturn ==
    /\ pc = "list_return"
    /\ IF top = "list"
       THEN /\ pc' = "done"
            /\ UNCHANGED knowledge_id
       ELSE LET found == get_knowledge_collection_id(collections, KnowledgeName)
            IN  /\ pc' = IF found.raised THEN "raised" ELSE "resolve_return"
                /\ knowledge_id' = found.id
    /\ UNCHANGED calls
    /\ UNCHANGED outer_vars
    /\ UNCHANGED << top, _knowledge_endpoint, log, loop_vars, resp, hist, fs,
                    collections, file_id, file_path, link_ok, link_vars,
                    batch_vars >>

\* upload_files_to_knowledge's branch on the id it has: start the upload
\* loop, or return the batch-level failure
batch_branch_falls_through(id, create_allowed, failure) ==
    IF Truthy(id) \/ ~create_allowed
    THEN [pc |-> "files", results |-> empty_results(file_paths)]
    ELSE [pc |-> "create", results |-> results]

batch_branch_creates_when_found(id, create_allowed, failure) ==
    IF create_allowed
    THEN [pc |-> "create", results |-> results]
    ELSE IF Truthy(id)
    THEN [pc |-> "files", results |-> empty_results(file_paths)]
    ELSE [pc |-> "done", results |-> failure]

batch_branch(id, create_allowed, failure) ==
    IF Truthy(id)
    THEN [pc |-> "files", results |-> empty_results(file_paths)]
    ELSE IF create_allowed
    THEN [pc |-> "create", results |-> results]
    ELSE [pc |-> "done", results |-> failure]

\* get_knowledge_collection_id returns: to the caller, or into the batch
ResolveReturn ==
    /\ pc = "resolve_return"
    /\ IF top = "resolve"
       THEN /\ pc' = "done"
            /\ UNCHANGED << loop_vars, results, fpos >>
       ELSE LET b == batch_branch(knowledge_id, create_if_missing,
                                  not_found(file_paths, KnowledgeName))
            IN  /\ pc' = b.pc
                /\ results' = b.results
                /\ fpos' = IF b.pc = "files" THEN 1 ELSE fpos
                /\ endpoints_to_try' =
                       IF b.pc = "create"
                       THEN create_endpoints(_knowledge_endpoint)
                       ELSE endpoints_to_try
                /\ i' = IF b.pc = "create" THEN 1 ELSE i
    /\ hist' = <<>>
    /\ resp' = None
    /\ UNCHANGED calls
    /\ UNCHANGED outer_vars
    /\ UNCHANGED << top, _knowledge_endpoint, log, fs, collections,
                    knowledge_id, file_id, file_path, link_ok, link_vars,
                    file_paths, create_if_missing, fstate >>

\* ----------------------------------------------- create_knowledge_collection
\* one pass of the loop over endpoints_to_try: POST {name, description};
\* return the id of the first JSON answer, remembering its base path when
\* none is remembered; after the last candidate return None
CreateTry ==
    /\ pc = "create"
    /\ \E r \in CreateResponses :
        LET endpoint == endpoints_to_try[i]
            response == _make_request(r)
        IN  /\ log' = Append(log, PostCreate(endpoint, KnowledgeName, Description))
            /\ hist' = Append(hist, r)
            /\ resp' = response
            /\ IF json_response(response)
               THEN IF response.body.kind = "list"
                    THEN \* result.get on a JSON array: AttributeError
                         /\ pc' = "raised"
                         /\ UNCHANGED << _knowledge_endpoint, knowledge_id, i >>
                    ELSE /\ knowledge_id' = response.body.id
                         /\ _knowledge_endpoint' =
                                IF _knowledge_endpoint = <<>>
                                THEN replace_create(endpoint)
                                ELSE _knowledge_endpoint
                         /\ pc' = "create_return"
                         /\ i' = i
               ELSE /\ _knowledge_endpoint' = _knowledge_endpoint
                    /\ IF i < Len(endpoints_to_try)
                       THEN /\ i' = i + 1
                            /\ pc' = "create"
                            /\ knowledge_id' = knowledge_id
                       ELSE /\ i' = i
                            /\ pc' = "create_return"
                            /\ knowledge_id' = NoneId
    /\ UNCHANGED calls
    /\ UNCHANGED outer_vars
    /\ UNCHANGED << top, endpoints_to_try, fs, collections, file_id, file_path,
                    link_ok, link_vars, batch_vars >>

\* create_knowledge_collection returns: to the caller, or into the batch
CreateReturn ==
    /\ pc = "create_return"
    /\ IF top = "create"
       THEN /\ pc' = "done"
            /\ UNCHANGED << results, fpos >>
       ELSE LET b == batch_branch(knowledge_id, FALSE,
                                  not_created(file_paths, KnowledgeName))
            IN  /\ pc' = b.pc
                /\ results' = b.results
                /\ fpos' = IF b.pc = "files" THEN 1 ELSE fpos
    /\ hist' = <<>>
    /\ resp' = None
    /\ UNCHANGED calls
    /\ UNCHANGED outer_vars
    /\ UNCHANGED << top, _knowledge_endpoint, log, loop_vars, fs, collections,
                    knowledge_id, file_id, file_path, link_ok, link_vars,
                    file_paths, create_if_missing, fstate >>

\* ------------------------------------------------------------ upload_file
\* the whole of upload_file on file_path: the local checks, the multipart
\* POST when they pass, and the reading of the answer
UploadFile ==
    /\ pc = "upload"
    /\ \E allowed \in {is_allowed_file(Paths[file_path])},
          isfile \in BOOLEAN, opened \in BOOLEAN, r \in UploadResponses :
        LET u == upload_file(isfile, allowed, opened, r)
        IN  /\ fs' = [isfile |-> isfile, allowed |-> allowed,
                      opened |-> isfile /\ allowed /\ opened]
            /\ log' = IF u.request THEN Append(log, PostFile(file_path)) ELSE log
            /\ hist' = IF u.request THEN <<r>> ELSE <<>>
            /\ resp' = IF u.request THEN _make_request(r) ELSE None
            /\ file_id' = u.file_id
            /\ calls' = [calls EXCEPT ![Len(calls)] = Ended(@, isfile, u)]
            /\ pc' = IF u.raised THEN "raised" ELSE "upload_return"
            /\ fstate' =
                   IF top = "batch" /\ ~u.raised
                   THEN [fstate EXCEPT ![fpos] =
                            IF Truthy(u.file_id) THEN "uploaded" ELSE "upload_failed"]
                   ELSE fstate
    /\ UNCHANGED outer_vars
    /\ UNCHANGED << top, _knowledge_endpoint, loop_vars, collections,
                    knowledge_id, file_path, link_ok, link_vars, file_paths,
                    create_if_missing, fpos, results >>

\* the batch's accounting of a file whose upload gave no id
count_upload_failed(res, path) ==
    [res EXCEPT !.failed = @ + 1,
                !.errors = Append(@, <<"Failed to upload", path>>)]

\* the batch's accounting of a file after add_file_to_knowledge returned
count_link_always_success(res, path, ok) == [res EXCEPT !.success = @ + 1]

count_link(res, path, ok) ==
    IF ok THEN [res EXCEPT !.success = @ + 1]
    ELSE [res EXCEPT !.failed = @ + 1,
                     !.errors = Append(@, <<"Failed to add to knowledge collection", path>>)]

\* the batch's pause between a successful upload and the linking
settle_skipped(log_) == log_

settle(log_) == Append(log_, Sleep(SettleDelay))

\* upload_file returns: to the caller, or into the batch loop, which sleeps
\* and links when there is an id and counts a failure when there is none
UploadReturn ==
    /\ pc = "upload_return"
    /\ IF top = "upload"
       THEN /\ pc' = "done"
            /\ UNCHANGED << log, link_vars, fpos, results, hist, resp, fs >>
       ELSE /\ hist' = <<>>
            /\ resp' = None
            /\ fs' = NoFs
            /\ IF Truthy(file_id)
               THEN /\ log' = settle(log)
                    /\ retries' = DefaultRetries
                    /\ retry_delay' = DefaultRetryDelay
                    /\ attempt' = 0
                    /\ pc' = "link"
                    /\ UNCHANGED << fpos, results >>
               ELSE /\ results' = count_upload_failed(results, file_path)
                    /\ fpos' = fpos + 1
                    /\ pc' = "files"
                    /\ UNCHANGED << log, link_vars >>
    /\ UNCHANGED calls
    /\ UNCHANGED outer_vars
    /\ UNCHANGED << top, _knowledge_endpoint, loop_vars, collections,
                    knowledge_id, file_id, file_path, link_ok, file_paths,
                    create_if_missing, fstate >>

\* --------------------------------------------------- add_file_to_knowledge
\* whether the retry loop sleeps after a failed attempt
sleeps_after_every(attempt_, retries_) == attempt_ < retries_

sleeps_after(attempt_, retries_) == attempt_ < retries_ - 1

\* one pass of `for attempt in range(retries)`: POST {file_id}; return True
\* on a response; else sleep unless this was the last attempt; after the
\* last attempt (or with no attempt at all) return False
LinkTry ==
    /\ pc = "link"
    /\ IF attempt >= retries
       THEN /\ link_ok' = FALSE
            /\ pc' = "link_return"
            /\ UNCHANGED << log, hist, resp, attempt >>
       ELSE \E r \in LinkResponses :
            LET response == _make_request(r)
                posted == Append(log, PostLink(knowledge_id, file_id))
            IN  /\ hist' = Append(hist, r)
                /\ resp' = response
                /\ IF response # None
                   THEN /\ log' = posted
                        /\ link_ok' = TRUE
                        /\ pc' = "link_return"
                        /\ attempt' = attempt
                   ELSE /\ log' = IF sleeps_after(attempt, retries)
                                  THEN Append(posted, Sleep(retry_delay))
                                  ELSE posted
                        /\ attempt' = attempt + 1
                        /\ link_ok' = FALSE
                        /\ pc' = IF attempt + 1 < retries THEN "link" ELSE "link_return"
    /\ fstate' =
           IF top = "batch" /\ pc' = "link_return"
           THEN [fstate EXCEPT ![fpos] = IF link_ok' THEN "linked" ELSE "link_failed"]
           ELSE fstate
    /\ UNCHANGED calls
    /\ UNCHANGED outer_vars
    /\ UNCHANGED << top, _knowledge_endpoint, loop_vars, fs, collections,
                    knowledge_id, file_id, file_path, retries, retry_delay,
                    file_paths, create_if_missing, fpos, results >>

\* add_file_to_knowledge returns: to the caller, or into the batch loop,
\* which counts the file and goes on to the next
LinkReturn ==
    /\ pc = "link_return"
    /\ IF top = "link"
       THEN /\ pc' = "done"
            /\ UNCHANGED << fpos, results, hist, resp >>
       ELSE /\ results' = count_link(results, file_path, link_ok)
            /\ fpos' = fpos + 1
            /\ pc' = "files"
            /\ hist' = <<>>
            /\ resp' = None
    /\ UNCHANGED calls
    /\ UNCHANGED outer_vars
    /\ UNCHANGED << top, _knowledge_endpoint, log, loop_vars, fs, collections,
                    knowledge_id, file_id, file_path, link_ok, link_vars,
                    file_paths, create_if_missing, fstate >>

\* ------------------------------------------------ upload_files_to_knowledge
\* whether `for file_path in file_paths` has a next path: nothing but the
\* end of the list ends the loop
loop_stops_on_failure(fpos_, file_paths_, results_) ==
    fpos_ <= Len(file_paths_) /\ results_.failed = 0

loop_continues(fpos_, file_paths_, results_) == fpos_ <= Len(file_paths_)

\* `for file_path in file_paths`: take the next path, or return the results
Files ==
    /\ pc = "files"
    /\ IF loop_continues(fpos, file_paths, results)
       THEN /\ file_path' = file_paths[fpos]
            /\ calls' = Append(calls, Begun(file_paths[fpos]))
            /\ pc' = "upload"
       ELSE /\ pc' = "done"
            /\ UNCHANGED << file_path, calls >>
    /\ UNCHANGED outer_vars
    /\ UNCHANGED << top, _knowledge_endpoint, log, loop_vars, resp, hist, fs,
                    collections, knowledge_id, file_id, link_ok, link_vars,
                    batch_vars >>

\* the arguments, locals and return values of a call are gone
Reset ==
    /\ log' = <<>>
    /\ endpoints_to_try' = <<>>
    /\ i' = 0
    /\ resp' = None
    /\ hist' = <<>>
    /\ fs' = NoFs
    /\ collections' = JsonList(<<>>)
    /\ knowledge_id' = NoneId
    /\ file_id' = NoneId
    /\ file_path' = 0
    /\ link_ok' = FALSE
    /\ retries' = 0
    /\ retry_delay' = 0
    /\ attempt' = 0
    /\ file_paths' = <<>>
    /\ create_if_missing' = FALSE
    /\ fpos' = 0
    /\ results' = empty_results(<<>>)
    /\ fstate' = <<>>
    /\ calls' = <<>>

\* the call is over (returned or raised); the client keeps only its
\* remembered endpoint and the caller may call again
Return ==
    /\ pc \in {"done", "raised"}
    /\ ~cli.by_main
    /\ top' = "idle"
    /\ pc' = "idle"
    /\ Reset
    /\ UNCHANGED << _knowledge_endpoint, outer_vars >>

\* a get_knowledge_collection_id call is over and its caller keeps what it
\* gave, to compare the next lookup with
ReturnResolve ==
    /\ pc \in {"done", "raised"}
    /\ top = "resolve"
    /\ top' = "idle"
    /\ pc' = "idle"
    /\ Reset
    /\ prev' = [prev EXCEPT !.known = TRUE, !.raised = (pc = "raised"),
                             !.id = knowledge_id]
    /\ UNCHANGED << _knowledge_endpoint, remote, cli, exit_code >>

\* ------------------------------------------------------------ cli.py: main
\* str.startswith
starts_with(s, prefix) ==
    /\ Len(s) >= Len(prefix)
    /\ SubSeq(s, 1, Len(prefix)) = prefix

\* the --endpoint values given on the command line, by number
Endpoints == <<
    <<"h", "t", "t", "p", ":", "/", "/", "h">>,       \* 1: http://h
    <<"h", "t", "t", "p", "s", ":", "/", "/", "h">>,  \* 2: https://h
    <<"f", "t", "p", ":", "/", "/", "h">>,            \* 3: ftp://h
    <<"H", "T", "T", "P", ":", "/", "/", "h">>,       \* 4: HTTP://h
    <<"h">>                                           \* 5: h
>>

\* --api-key, or the environment's value: unset, empty or given
ApiKeys == {NoneId, "", "key"}

\* what --path names
PathKinds == {"missing", "notdir", "dir"}

\* what collect_files returns for a directory: its files, sorted, each once
\* (the numbers of BatchPaths are in the order of their strings)
CollectedFiles ==
    { q \in SeqsUpTo(BatchPaths, MaxFiles) :
          \A j, k \in 1..Len(q) : j < k => q[j] < q[k] }

\* main up to the client call: the first check that fails decides, else
\* the batch is run
main_outcome(api_key, endpoint, path, files) ==
    IF ~Truthy(api_key) THEN "no_api_key"
    ELSE IF ~(\/ starts_with(endpoint, <<"h", "t", "t", "p", ":", "/", "/">>)
              \/ starts_with(endpoint, <<"h", "t", "t", "p", "s", ":", "/", "/">>))
         THEN "bad_endpoint"
    ELSE IF path # "dir" THEN "bad_path"
    ELSE IF files = <<>> THEN "no_files"
    ELSE "batch"

\* the exit code of main when it ends before the client call
exit_before_batch(how) == IF how = "no_files" THEN 0 ELSE 1

\* the exit code of main after the summary
exit_after_batch_always_zero(results_) == 0

exit_after_batch(results_) == IF results_.failed > 0 THEN 1 ELSE 0

\* main runs: it validates its arguments, collects the files and, with a
\* client of its own, starts the batch; or it exits before that
Main ==
    /\ top = "idle"
    /\ ~cli.by_main
    /\ _knowledge_endpoint = <<>>
    /\ \E api_key \in ApiKeys, endpoint \in DOMAIN Endpoints,
          path \in PathKinds, files \in CollectedFiles, cim \in BOOLEAN :
        LET how == main_outcome(api_key, Endpoints[endpoint], path, files)
        IN  /\ path # "dir" => files = <<>>
            /\ cli' = [by_main |-> TRUE, how |-> how, api_key |-> api_key,
                       endpoint |-> endpoint, path |-> path]
            /\ IF how = "batch"
               THEN /\ top' = "batch"
                    /\ pc' = "list"
                    /\ file_paths' = files
                    /\ create_if_missing' = cim
                    /\ fstate' = [k \in 1..Len(files) |-> "pending"]
                    /\ endpoints_to_try' = list_candidates(_knowledge_endpoint)
                    /\ i' = 1
                    /\ exit_code' = exit_code
               ELSE /\ top' = "main"
                    /\ pc' = "exited"
                    /\ exit_code' = exit_before_batch(how)
                    /\ UNCHANGED << file_paths, create_if_missing, fstate,
                                    endpoints_to_try, i >>
    /\ UNCHANGED calls
    /\ UNCHANGED << remote, prev >>
    /\ UNCHANGED << _knowledge_endpoint, log, resp, hist, fs, collections,
                    knowledge_id, file_id, file_path, link_ok, link_vars, fpos,
                    results >>

\* the batch main started is over: the summary is printed and the exit code
\* follows the failed count; an exception that escaped the client exits 1
MainExit ==
    /\ cli.by_main
    /\ top = "batch"
    /\ pc \in {"done", "raised"}
    /\ top' = top
    /\ pc' = "exited"
    /\ cli' = [cli EXCEPT !.how = IF pc = "done" THEN "returned" ELSE "raised"]
    /\ exit_code' = IF pc = "done" THEN exit_after_batch(results) ELSE 1
    /\ UNCHANGED calls
    /\ UNCHANGED << remote, prev >>
    /\ UNCHANGED << _knowledge_endpoint, log, loop_vars, resp, hist, fs,
                    collections, knowledge_id, file_id, file_path, link_ok,
                    link_vars, batch_vars >>

\* Ctrl-C while main's batch runs: KeyboardInterrupt passes through the
\* client's handlers and main exits 130
Interrupt ==
    /\ cli.by_main
    /\ top = "batch"
    /\ pc \notin {"done", "raised"}
    /\ top' = "main"
    /\ pc' = "exited"
    /\ Reset
    /\ cli' = [cli EXCEPT !.how = "interrupted"]
    /\ exit_code' = 130
    /\ UNCHANGED << _knowledge_endpoint, remote, prev >>

\* a list_knowledge_collections call is over and its caller notes the path
\* that answered it, if one did
ReturnList ==
    /\ pc = "done"
    /\ top = "list"
    /\ top' = "idle"
    /\ pc' = "idle"
    /\ Reset
    /\ prev' = [prev EXCEPT !.at = IF json_response(resp)
                                   THEN log[Len(log)].url
                                   ELSE prev.at]
    /\ UNCHANGED << _knowledge_endpoint, remote, cli, exit_code >>

\* a create_knowledge_collection call is over
ReturnCreate ==
    /\ top = "create"
    /\ Return

Next ==
    \/ CallList
    \/ CallResolve
    \/ CallCreate
    \/ CallUpload
    \/ CallLink
    \/ CallBatch
    \/ ListTry
    \/ ListReturn
    \/ ResolveReturn
    \/ CreateTry
    \/ CreateReturn
    \/ UploadFile
    \/ UploadReturn
    \/ LinkTry
    \/ LinkReturn
    \/ Files
    \/ Return
    \/ Main
    \/ MainExit
    \/ Interrupt

Spec == Init /\ [][Next]_vars

\* lookups and listings, one after the other, against a remote whose state
\* does not change
NextLookups ==
    \/ CallResolve
    \/ CallList
    \/ ListTry
    \/ ListReturn
    \/ ResolveReturn
    \/ Return
    \/ ReturnResolve

SpecLookups == InitUnchangingRemote /\ [][NextLookups]_vars

\* listings and creations, one after the other, on one client
NextDiscovery ==
    \/ CallList
    \/ ListTry
    \/ ListReturn
    \/ ReturnList
    \/ CallCreate
    \/ CreateTry
    \/ CreateReturn
    \/ ReturnCreate

SpecDiscovery == Init /\ [][NextDiscovery]_vars

\* ============================================================== properties
\* kinds of log entry
IsGet(e) == e.ev = "GET"
IsCreatePost(e) == e.ev = "POST" /\ e.url[Len(e.url)] = "create"
IsUploadPost(e) == e.ev = "POST" /\ e.url = <<"api", "v1", "files", "">>
IsLinkPost(e) ==
    /\ e.ev = "POST"
    /\ Len(e.url) = 6
    /\ SubSeq(e.url, 1, 3) = <<"api", "v1", "knowledge">>
    /\ SubSeq(e.url, 5, 6) = <<"file", "add">>
IsSleep(e) == e.ev = "sleep"

\* how many entries of kind P the log holds among its first n
CountIn(P(_), n) == Cardinality({ k \in 1..n : P(log[k]) })
Count(P(_)) == CountIn(P, Len(log))

\* the batch has returned its result dictionary
BatchReturned == top = "batch" /\ pc = "done"

\* the listing the lookup saw holds no collection of the name asked for
NameAbsent ==
    /\ collections.kind = "list"
    /\ \A k \in 1..Len(collections.items) :
           collections.items[k].name # KnowledgeName

\* the result of a batch that failed as a whole
WholeBatchFailed ==
    /\ results.total = Len(file_paths)
    /\ results.success = 0
    /\ results.failed = Len(file_paths)
    /\ Len(results.errors) = 1

NoFileWork == Count(IsUploadPost) = 0 /\ Count(IsLinkPost) = 0

\* C1: a batch whose lookup finds no collection of the name, called with
\* create_if_missing = False, returns total = N, success = 0, failed = N
\* and one error message, having sent no upload, create or link request.
C1_AbsentNoCreate ==
    (BatchReturned /\ ~create_if_missing /\ NameAbsent)
        => /\ WholeBatchFailed
           /\ NoFileWork
           /\ Count(IsCreatePost) = 0

C1_Witness ==
    /\ BatchReturned
    /\ ~create_if_missing
    /\ NameAbsent
    /\ Len(file_paths) = 2
    /\ results.failed = 2

\* C2: a batch whose collection is absent, called with create_if_missing =
\* True, whose create_knowledge_collection gave no id, returns total = N,
\* success = 0, failed = N and one error message, having sent no upload or
\* link request.
C2_CreateFailed ==
    (BatchReturned /\ create_if_missing /\ NameAbsent /\ ~Truthy(knowledge_id))
        => /\ WholeBatchFailed
           /\ NoFileWork

C2_Witness ==
    /\ BatchReturned
    /\ create_if_missing
    /\ NameAbsent
    /\ ~Truthy(knowledge_id)
    /\ Count(IsCreatePost) = 4
    /\ Len(file_paths) = 2
    /\ results.failed = 2

\* the positions of the batch whose file is in one of the given states
PositionsIn(states) ==
    SelectSeq([k \in 1..Len(fstate) |-> k], LAMBDA k : fstate[k] \in states)

FailedStates == {"upload_failed", "link_failed"}

\* C3: a batch that obtained a collection id returns total = the number of
\* paths, success = the number of files uploaded and then linked, failed =
\* the number whose upload or linking failed, success + failed = total, and
\* one error per failed file, in input order, each holding the file's path.
C3_ResultCounts ==
    (BatchReturned /\ Truthy(knowledge_id))
        => LET failedAt == PositionsIn(FailedStates)
           IN  /\ results.total = Len(file_paths)
               /\ results.success = Len(PositionsIn({"linked"}))
               /\ results.failed = Len(failedAt)
               /\ results.success + results.failed = results.total
               /\ Len(results.errors) = Len(failedAt)
               /\ \A j \in 1..Len(failedAt) :
                      results.errors[j][2] = file_paths[failedAt[j]]

\* two files, the first failing, the second linked: one error, for the first
C3_Witness ==
    /\ BatchReturned
    /\ Truthy(knowledge_id)
    /\ file_paths = <<4, 1>>
    /\ fstate = <<"upload_failed", "linked">>
    /\ results.success = 1
    /\ results.failed = 1

\* C4: once a collection id is there, every path gets exactly one
\* upload_file call, in input order, before the batch returns, whatever
\* the earlier files' outcomes; during the loop the calls made so far are
\* the paths up to the loop's position.
C4_EveryFileAttempted ==
    (top = "batch" /\ Truthy(knowledge_id) /\ pc \in {"files", "upload", "done"})
        => IF pc = "done"
           THEN [k \in 1..Len(calls) |-> calls[k].path] = file_paths
           ELSE [k \in 1..Len(calls) |-> calls[k].path]
                    = SubSeq(file_paths, 1, IF pc = "upload" THEN fpos ELSE fpos - 1)

\* both files were tried although the first could not be linked
C4_Witness ==
    /\ BatchReturned
    /\ Truthy(knowledge_id)
    /\ Len(file_paths) = 2
    /\ fstate[1] = "link_failed"
    /\ Len(calls) = 2
    /\ calls[2].ret # "pending"

\* a response the client takes for a failure: requests raised, or
\* raise_for_status did
FailedResponse(r) == r.status = 0 \/ r.status >= 400

\* C5: add_file_to_knowledge with retries = n >= 1, every attempt failing,
\* sends exactly n link requests with exactly one retry_delay sleep between
\* consecutive ones (n - 1 sleeps, none after the last) and returns False.
C5_RetriesExhausted ==
    (top = "link" /\ pc \in {"link_return", "done"} /\ retries >= 1
        /\ \A k \in 1..Len(hist) : FailedResponse(hist[k]))
        => /\ link_ok = FALSE
           /\ Len(hist) = retries
           /\ Count(IsLinkPost) = retries
           /\ Count(IsSleep) = retries - 1
           /\ Len(log) = 2 * retries - 1
           /\ \A k \in 1..Len(log) :
                  IF k % 2 = 1 THEN IsLinkPost(log[k])
                  ELSE log[k] = Sleep(retry_delay)

C5_Witness ==
    /\ top = "link"
    /\ pc = "done"
    /\ retries = DefaultRetries
    /\ link_ok = FALSE
    /\ Count(IsLinkPost) = 3
    /\ Count(IsSleep) = 2

\* the upload_file calls that sent their request, in order: the k-th of
\* them sent the log's k-th upload request
Requested == SelectSeq(calls, LAMBDA c : c.request)

\* C6: every link request, first attempt or retry, carries a payload whose
\* only key is file_id, its value the id that file's upload returned (in a
\* direct call: the id passed); no metadata key is ever present.
C6_LinkPayload ==
    \A k \in 1..Len(log) :
        IsLinkPost(log[k])
            => /\ DOMAIN log[k].json = {"file_id"}
               /\ log[k].json.file_id =
                      IF top = "batch"
                      THEN Requested[CountIn(IsUploadPost, k)].ret
                      ELSE file_id

\* a batch whose two uploads returned different ids, one of them linked
\* only on a retry
C6_Witness ==
    /\ BatchReturned
    /\ Len(Requested) = 2
    /\ Requested[1].ret = "f1"
    /\ Requested[2].ret = "f2"
    /\ Count(IsLinkPost) >= 3
    /\ fstate = <<"linked", "linked">>

\* the name is s, in any letter case
SameIgnoringCase(name, s) ==
    /\ Len(name) = Len(s)
    /\ \A k \in 1..Len(s) : name[k] = s[k] \/ lower_char(name[k]) = s[k]

\* the name ends, in any letter case, with the extension e after a stem
HasExtension(name, e) ==
    /\ Len(name) > Len(e)
    /\ SameIgnoringCase(SubSeq(name, Len(name) - Len(e) + 1, Len(name)), e)

\* the path's file is one the uploader must not send
Rejected(p) ==
    LET name == path_name(Paths[p])
    IN  \/ \E s \in system_files : SameIgnoringCase(name, s)
        \/ ~ \E e \in allowed_extensions : HasExtension(name, e)

\* upload_file has just run: it returned, or its exception escaped
UploadFileOver ==
    \/ pc = "upload_return"
    \/ pc = "raised" /\ calls # <<>> /\ calls[Len(calls)].ret = "raised"

\* C7: for a file named .DS_Store or Thumbs.db in any case, or with an
\* extension outside the allowed five, or absent locally, upload_file
\* returns no id and sends nothing; the batch counts the file as failed
\* and sends no link request for it (nothing at all is sent or slept
\* between that file's call and the next file's).
C7_RejectedFiles ==
    /\ (UploadFileOver /\ (Rejected(file_path) \/ ~fs.isfile))
           => /\ pc = "upload_return"
              /\ file_id = NoneId
              /\ hist = <<>>
              /\ ~calls[Len(calls)].request
              /\ Len(log) = calls[Len(calls)].at
    /\ top = "batch"
           => \A k \in 1..Len(calls) :
                  (calls[k].ret # "pending"
                      /\ (Rejected(calls[k].path) \/ ~calls[k].isfile))
                  => /\ fstate[k] = "upload_failed"
                     /\ calls[k].at =
                            IF k < Len(calls) THEN calls[k + 1].at ELSE Len(log)
                     /\ k < fpos =>
                            /\ results.failed >= 1
                            /\ \E j \in 1..Len(results.errors) :
                                   results.errors[j] = <<"Failed to upload", calls[k].path>>

\* a batch of THUMBS.DB (present on disk) and a.md: the first failed
\* without a request, the second was uploaded and linked
C7_Witness ==
    /\ BatchReturned
    /\ file_paths = <<4, 1>>
    /\ Len(calls) = 2
    /\ calls[1].isfile
    /\ ~calls[1].request
    /\ fstate = <<"upload_failed", "linked">>
    /\ Count(IsUploadPost) = 1

\* the candidate did not return parseable JSON: a network error, an error
\* status, an HTML content type, or a body that does not parse
NoJson(r) == r.status = 0 \/ r.status >= 400 \/ r.html \/ r.body.kind = "bad"

\* C8: when no candidate list path returns parseable JSON (each ends in a
\* network error, an error status, an HTML content type or an unparseable
\* body), list_knowledge_collections returns the empty list and no
\* exception escapes.
C8_ListAllFail ==
    ((pc = "list_return" \/ (top = "list" /\ pc \in {"done", "raised"}))
        /\ \A k \in 1..Len(hist) : NoJson(hist[k]))
        => /\ pc # "raised"
           /\ collections = JsonList(<<>>)
           /\ Len(hist) = Len(list_endpoints)

C8_Witness ==
    /\ top = "list"
    /\ pc = "done"
    /\ hist = << NetErr, Resp(200, TRUE, JsonList(<<Coll("docs", "k1")>>)),
                 Resp(200, FALSE, Unparseable) >>
    /\ collections = JsonList(<<>>)

\* C9: upload_file does not raise on an I/O error at open, a network error,
\* an error status or a body that is not JSON: it returns None, and the
\* batch counts the file as an upload failure.
C9_UploadNeverRaises ==
    /\ (UploadFileOver
            /\ \/ fs.isfile /\ fs.allowed /\ ~fs.opened
               \/ hist # <<>> /\ (FailedResponse(hist[1]) \/ hist[1].body.kind = "bad"))
           => /\ pc = "upload_return"
              /\ file_id = NoneId
              /\ top = "batch" => fstate[fpos] = "upload_failed"
    /\ (top = "batch" /\ pc = "files" /\ fpos > 1 /\ fstate[fpos - 1] = "upload_failed")
           => /\ results.failed >= 1
              /\ results.errors[Len(results.errors)]
                     = <<"Failed to upload", file_paths[fpos - 1]>>

\* in a batch, the upload answered 200 with a body that is not JSON
C9_Witness ==
    /\ top = "batch"
    /\ pc = "upload_return"
    /\ hist = << Resp(200, FALSE, Unparseable) >>
    /\ file_id = NoneId
    /\ fstate[fpos] = "upload_failed"

\* the ids the remote hands out on creation
CreatedIds == { r.body.id : r \in { c \in CreateResponses : c.body.kind = "obj" } }

\* the batch's knowledge_id came from the listing (a collection of the
\* name with that id) or, when a create request was sent, from creation
ObtainedId ==
    /\ Truthy(knowledge_id)
    /\ IF Count(IsCreatePost) = 0
       THEN /\ collections.kind = "list"
            /\ \E k \in 1..Len(collections.items) :
                   collections.items[k] = Coll(KnowledgeName, knowledge_id)
       ELSE knowledge_id \in CreatedIds

\* C10: in a batch no upload_file call, upload request or link request
\* happens before a collection id has been obtained by lookup or creation,
\* and every link request targets that id.
C10_CollectionFirst ==
    top = "batch"
        => /\ (calls # <<>> \/ Count(IsUploadPost) > 0 \/ Count(IsLinkPost) > 0)
                  => ObtainedId
           /\ \A k \in 1..Len(log) :
                  IsLinkPost(log[k]) => log[k].url[4] = knowledge_id

\* a batch that created its collection and then linked a file to it
C10_Witness ==
    /\ BatchReturned
    /\ Count(IsCreatePost) >= 1
    /\ Count(IsLinkPost) >= 1
    /\ knowledge_id = "k2"
    /\ results.success = 1

\* a get_knowledge_collection_id call is over
ResolveOver == top = "resolve" /\ pc \in {"done", "raised"}

\* C11: two get_knowledge_collection_id calls for the same name, with no
\* create call in between and a remote that answers every list path the
\* same way both times, end the same way: the same id, or none, whatever
\* path the first call remembered.
C11_SameLookupTwice ==
    (ResolveOver /\ prev.known)
        => /\ prev.raised = (pc = "raised")
           /\ prev.id = knowledge_id

\* the second lookup gave k1 again, found at the second path after the
\* first path failed, and the first lookup had left that path remembered
C11_Witness ==
    /\ ResolveOver
    /\ pc = "done"
    /\ prev.known
    /\ ~prev.raised
    /\ prev.id = "k1"
    /\ knowledge_id = "k1"
    /\ Count(IsGet) = 2
    /\ _knowledge_endpoint = <<"api", "v1", "knowledges">>

\* main has exited
Exited == pc = "exited"

\* the endpoint main was given begins with http:// or https://
HttpEndpoint ==
    LET e == Endpoints[cli.endpoint]
    IN  \/ (Len(e) >= 7 /\ SubSeq(e, 1, 7) = <<"h", "t", "t", "p", ":", "/", "/">>)
        \/ (Len(e) >= 8
              /\ SubSeq(e, 1, 8) = <<"h", "t", "t", "p", "s", ":", "/", "/">>)

\* main's validation fails: no API key, an endpoint without http:// or
\* https://, or a path that is missing or not a directory
ValidationFails ==
    \/ cli.api_key \in {NoneId, ""}
    \/ ~HttpEndpoint
    \/ cli.path \in {"missing", "notdir"}

\* C12: the process exits 0 exactly when no files were found or the batch
\* result has failed = 0; it exits 1 when the batch result has failed > 0
\* or validation fails; it exits 130 when interrupted; a batch-level
\* failure with at least one file never exits 0.
C12_ExitCodes ==
    Exited
        => /\ exit_code = 0
                  <=> \/ cli.how = "no_files"
                      \/ (cli.how = "returned" /\ results.failed = 0)
           /\ (cli.how = "returned" /\ results.failed > 0) => exit_code = 1
           /\ ValidationFails => exit_code = 1
           /\ cli.how = "interrupted" => exit_code = 130
           /\ (cli.how = "returned" /\ ~Truthy(knowledge_id)
                  /\ Len(file_paths) >= 1) => exit_code # 0

\* main exited 1 after a batch of two files whose collection was neither
\* found nor created
C12_Witness ==
    /\ Exited
    /\ cli.how = "returned"
    /\ ~Truthy(knowledge_id)
    /\ Len(file_paths) = 2
    /\ results.failed = 2
    /\ exit_code = 1

\* the list paths in the order /api/v1/workspace/knowledge,
\* /api/v1/knowledges, /api/v1/knowledge
ListOrder ==
    << <<"api", "v1", "workspace", "knowledge">>,
       <<"api", "v1", "knowledges">>,
       <<"api", "v1", "knowledge">> >>

\* list_knowledge_collections has left its loop
ListOver == pc = "list_return" \/ (top = "list" /\ pc \in {"done", "raised"})

\* C13: list_knowledge_collections requests the candidate paths in the
\* order /api/v1/workspace/knowledge, /api/v1/knowledges, /api/v1/knowledge
\* and returns the body of the first candidate whose response is
\* successful, not of HTML content type and parseable; an HTML response is
\* skipped even with a 2xx status, and no candidate after the first
\* successful one is requested.
C13_ListOrder ==
    ListOver
        => /\ Len(log) = Len(hist)
           /\ Len(hist) \in 1..Len(ListOrder)
           /\ \A k \in 1..Len(log) :
                  /\ IsGet(log[k])
                  /\ log[k].url = ListOrder[k]
           /\ \A k \in 1..(Len(hist) - 1) : NoJson(hist[k])
           /\ IF NoJson(hist[Len(hist)])
              THEN Len(hist) = Len(ListOrder) /\ collections = JsonList(<<>>)
              ELSE collections = hist[Len(hist)].body

\* the first path answered 200 with an HTML content type and a JSON body,
\* the second answered with a listing, which was returned; the third path
\* was not asked
C13_Witness ==
    /\ top = "list"
    /\ pc = "done"
    /\ hist = << Resp(200, TRUE, JsonList(<<Coll("docs", "k1")>>)),
                 Resp(200, FALSE, JsonList(<<Coll("Docs", "k2"),
                                             Coll("docs", "k1")>>)) >>
    /\ log = << Get(ListOrder[1]), Get(ListOrder[2]) >>
    /\ collections = JsonList(<<Coll("Docs", "k2"), Coll("docs", "k1")>>)

\* the create paths in the order /api/v1/workspace/knowledge/create,
\* /api/v1/knowledges/create, /api/v1/knowledge/create
CreateOrder == [k \in 1..Len(ListOrder) |-> Append(ListOrder[k], "create")]

\* the place of a create path in that order, 0 for any other path
CreatePlace(url) ==
    IF \E k \in 1..Len(CreateOrder) : CreateOrder[k] = url
    THEN CHOOSE k \in 1..Len(CreateOrder) : CreateOrder[k] = url
    ELSE 0

\* the requests are POSTs that work through the create paths in order from
\* the given request on: each goes to the path of the one before or to the
\* next path
InCreateOrder(requests, from) ==
    \A k \in from..Len(requests) :
        /\ IsCreatePost(requests[k])
        /\ CreatePlace(requests[k].url) >= 1
        /\ IF k = from
           THEN CreatePlace(requests[k].url) = 1
           ELSE CreatePlace(requests[k].url) - CreatePlace(requests[k - 1].url)
                    \in {0, 1}

\* every create path has been POSTed
AllCreatePathsTried(requests) ==
    \A c \in 1..Len(CreateOrder) :
        \E k \in 1..Len(requests) : requests[k].url = CreateOrder[c]

C20_NoCreatePathTwice ==
    \A j, k \in 1..Len(log) :
        (j < k /\ IsCreatePost(log[j]) /\ IsCreatePost(log[k]))
            => log[j].url # log[k].url

\* a step in which create_knowledge_collection gets its id: the POST just
\* sent was answered with parseable non-HTML JSON and the method returns
CreateSucceeds ==
    /\ pc = "create"
    /\ pc' = "create_return"
    /\ Len(log') = Len(log) + 1
    /\ ~NoJson(hist'[Len(hist')])

\* the create path the last request went to, without its /create suffix
BaseOfLast(requests) ==
    LET Q == requests[Len(requests)].url
    IN  SubSeq(Q, 1, Len(Q) - 1)

\* C15 as stated: whenever create_knowledge_collection succeeds through
\* create path Q, the cached endpoint afterwards is the base path of Q and
\* the returned value is the id of the creation response, for every prior
\* cache state.
C15_CreateAlwaysCaches ==
    [][CreateSucceeds
          => /\ _knowledge_endpoint' = BaseOfLast(log')
             /\ knowledge_id' = hist'[Len(hist')].body.id
      ]_vars

\* C15 amended: whenever create_knowledge_collection succeeds through create
\* path Q, the returned value is the id of the creation response; the cached
\* endpoint afterwards is the base path of Q when nothing was cached before,
\* and otherwise is the path cached before, unchanged.
C15_CreateCachesWhenUnset ==
    [][CreateSucceeds
          => /\ knowledge_id' = hist'[Len(hist')].body.id
             /\ _knowledge_endpoint' =
                    IF _knowledge_endpoint = <<>> THEN BaseOfLast(log')
                    ELSE _knowledge_endpoint
      ]_vars

\* a creation on a fresh client failed twice at the workspace path and
\* succeeded at /api/v1/knowledges/create, which is now remembered
C15_Witness ==
    /\ top = "create"
    /\ pc = "create_return"
    /\ prev.at = <<>>
    /\ Len(log) = 3
    /\ log[3].url = <<"api", "v1", "knowledges", "create">>
    /\ knowledge_id = "k2"
    /\ _knowledge_endpoint = <<"api", "v1", "knowledges">>

\* what the lookup by name gives for the listing it saw: the id of the
\* first collection of that name, none when there is no such collection
LookupId ==
    LET named == { k \in 1..Len(collections.items) :
                       collections.items[k].name = KnowledgeName }
    IN  IF named = {} THEN NoneId
        ELSE collections.items[CHOOSE k \in named : \A j \in named : k <= j].id

\* C16: within upload_files_to_knowledge a create request is issued only
\* when the lookup by name returned no id and create_if_missing is True;
\* when the collection is found, or create_if_missing is False, no create
\* request is ever issued.
C16_CreateOnlyWhenMissing ==
    (top = "batch" /\ Count(IsCreatePost) > 0)
        => /\ create_if_missing
           /\ collections.kind = "list"
           /\ LookupId \in {NoneId, ""}

\* the second list path answered with an empty listing, create_if_missing
\* was True, and the batch sent one create request and got the id k2
C16_Witness ==
    /\ top = "batch"
    /\ create_if_missing
    /\ collections = JsonList(<<>>)
    /\ Count(IsGet) = 2
    /\ Count(IsCreatePost) = 1
    /\ knowledge_id = "k2"
    /\ pc = "files"

\* the moves of a file's state, and the states without a move out
FileMoves ==
    { <<"pending", "uploaded">>, <<"pending", "upload_failed">>,
      <<"uploaded", "linked">>, <<"uploaded", "link_failed">> }

TerminalStates == {"linked", "upload_failed", "link_failed"}

\* a step of a batch
BatchStep == top = "batch" /\ top' = "batch"

\* what a step of a batch does to the files: a state changes only for the
\* file at the loop's position and only along a move; an upload request is
\* for the pending file at that position and a link request for the
\* uploaded file at that position; a file is counted once, when it is
\* terminal, and the loop then moves past it for good
FileStateMachine ==
    /\ DOMAIN fstate' = DOMAIN fstate
    /\ \A k \in DOMAIN fstate :
           fstate'[k] # fstate[k]
               => k = fpos /\ <<fstate[k], fstate'[k]>> \in FileMoves
    /\ \A j \in (Len(log) + 1)..Len(log') :
           /\ IsUploadPost(log'[j])
                  => /\ fpos \in DOMAIN fstate
                     /\ fstate[fpos] = "pending"
                     /\ log'[j].files.file.path = file_paths[fpos]
           /\ IsLinkPost(log'[j])
                  => /\ fpos \in DOMAIN fstate
                     /\ fstate[fpos] = "uploaded"
                     /\ log'[j].json.file_id = file_id
    /\ (pc \in {"upload_return", "link_return"} /\ results' # results)
           => /\ fstate[fpos] \in TerminalStates
              /\ fpos' = fpos + 1
              /\ results'.success + results'.failed
                     = results.success + results.failed + 1
    /\ (pc \in {"files", "upload", "link"}) => results' = results
    /\ fpos' >= fpos
    /\ \A k \in 1..(fpos' - 1) : fstate'[k] \in TerminalStates

\* C17 as stated: each file in a batch moves only along pending ->
\* uploaded -> linked, pending -> upload_failed or uploaded -> link_failed;
\* the three end states are terminal, a link request is issued only for a
\* file in state uploaded, and when the batch returns every file is in
\* exactly one terminal state.
C17_AllTerminalAtReturn ==
    [][BatchStep
          => /\ FileStateMachine
             /\ pc' = "done"
                    => \A k \in DOMAIN fstate' : fstate'[k] \in TerminalStates
      ]_vars

\* C17 amended: the same moves, terminal states and link condition; when a
\* batch that obtained a collection id returns, every file is in exactly
\* one terminal state, and a batch that returns without a collection id
\* leaves every file pending.
C17_FileStateMachine ==
    [][BatchStep
          => /\ FileStateMachine
             /\ pc' = "done"
                    => IF Truthy(knowledge_id')
                       THEN \A k \in DOMAIN fstate' :
                                fstate'[k] \in TerminalStates
                       ELSE \A k \in DOMAIN fstate' : fstate'[k] = "pending"
      ]_vars

\* a batch of two files returned: the upload of the first failed, the second
\* was uploaded and its linking failed
C17_Witness ==
    /\ BatchReturned
    /\ Truthy(knowledge_id)
    /\ fstate = <<"upload_failed", "link_failed">>
    /\ Count(IsLinkPost) = DefaultRetries

\* the requests and sleeps between the start of the batch's k-th
\* upload_file call and the start of the next one (or now)
Segment(k) ==
    SubSeq(log, calls[k].at + 1,
           IF k < Len(calls) THEN calls[k + 1].at ELSE Len(log))

\* the k-th upload_file call returned a file id
Uploaded(k) == calls[k].ret \notin {"pending", "raised", NoneId, ""}

\* what a successfully uploaded file leaves in the log: its upload request,
\* the settle delay, its first link request, and then retry delays and link
\* requests in turn, every link request naming its file id
UploadedSegment(k) ==
    LET seg == Segment(k)
    IN  \A j \in 1..Len(seg) :
            IF j = 1 THEN IsUploadPost(seg[j])
            ELSE IF j = 2 THEN seg[j] = Sleep(SettleDelay)
            ELSE IF j % 2 = 1
                 THEN IsLinkPost(seg[j]) /\ seg[j].json.file_id = calls[k].ret
                 ELSE seg[j] = Sleep(DefaultRetryDelay)

\* what a file whose upload failed leaves in the log: at most its upload
\* request
FailedSegment(k) ==
    LET seg == Segment(k)
    IN  /\ Len(seg) = IF calls[k].request THEN 1 ELSE 0
        /\ \A j \in 1..Len(seg) : IsUploadPost(seg[j])

\* C18: batch processing is sequential and ordered: for each successfully
\* uploaded file the settle delay comes after its upload response and before
\* its first link request, no settle delay occurs for a file whose upload
\* failed, and the upload of file i + 1 never starts before file i has
\* finished all of its link attempts.
C18_SequentialBatch ==
    (top = "batch" /\ calls # <<>>)
        => /\ \A k \in 1..Len(calls) :
                  /\ calls[k].path = file_paths[k]
                  /\ calls[k].ret = "pending" => Segment(k) = <<>>
                  /\ Uploaded(k) => UploadedSegment(k)
                  /\ (calls[k].ret \in {NoneId, ""}) => FailedSegment(k)
                  /\ k < Len(calls)
                         => /\ fstate[k] \in TerminalStates
                            /\ Uploaded(k)
                                   => /\ Len(Segment(k)) >= 3
                                      /\ IsLinkPost(Segment(k)[Len(Segment(k))])
           /\ (pc = "link" /\ attempt = 0)
                  => log[Len(log)] = Sleep(SettleDelay)
           /\ \A j \in 1..Len(log) :
                  (IsUploadPost(log[j]) \/ IsLinkPost(log[j]) \/ IsSleep(log[j]))
                      => j > calls[1].at

\* the first file was uploaded, settled and linked at its second attempt;
\* the second file's upload failed and nothing follows its request
C18_Witness ==
    /\ BatchReturned
    /\ Len(calls) = 2
    /\ Uploaded(1)
    /\ Len(Segment(1)) = 5
    /\ calls[2].ret = NoneId
    /\ calls[2].request
    /\ IsUploadPost(log[Len(log)])

\* add_file_to_knowledge has left its loop
LinkOver == pc = "link_return" \/ (top = "link" /\ pc = "done")

\* the attempts made that succeeded
SucceededAttempts == { k \in 1..Len(hist) : ~FailedResponse(hist[k]) }

\* the link requests among the given requests and sleeps
LinkRequests(entries) == SelectSeq(entries, IsLinkPost)

\* C19: add_file_to_knowledge stops at the first successful attempt: when
\* attempt k (1 <= k <= retries) is the first to succeed there are exactly k
\* link requests and k - 1 delays, it returns True and nothing follows the
\* success; it returns True if and only if some attempt within the retry
\* budget succeeded; within a batch a file causes at most 3 link requests.
C19_StopsAtFirstSuccess ==
    /\ LinkOver
           => /\ link_ok <=> SucceededAttempts # {}
              /\ Len(hist) <= retries
              /\ link_ok
                     => /\ SucceededAttempts = {Len(hist)}
                        /\ Len(hist) \in 1..retries
              /\ (link_ok /\ top = "link")
                     => /\ Count(IsLinkPost) = Len(hist)
                        /\ Count(IsSleep) = Len(hist) - 1
                        /\ Len(log) = 2 * Len(hist) - 1
                        /\ IsLinkPost(log[Len(log)])
                        /\ \A j \in 1..Len(log) :
                               IsSleep(log[j]) => log[j] = Sleep(retry_delay)
              /\ (link_ok /\ top = "batch")
                     => /\ IsLinkPost(log[Len(log)])
                        /\ Len(LinkRequests(Segment(Len(calls)))) = Len(hist)
                        /\ Len(Segment(Len(calls))) = 2 * Len(hist) + 1
    /\ top = "batch"
           => \A k \in 1..Len(calls) : Len(LinkRequests(Segment(k))) <= 3

\* with a budget of 4 the third attempt was the first to succeed: three link
\* requests, two delays, True
C19_Witness ==
    /\ top = "link"
    /\ pc = "done"
    /\ retries = 4
    /\ link_ok
    /\ Len(hist) = 3
    /\ Count(IsLinkPost) = 3
    /\ Count(IsSleep) = 2

\* the cached endpoint is unset or one of the three list paths
CachedListPath ==
    \/ _knowledge_endpoint = <<>>
    \/ \E k \in 1..Len(ListOrder) : _knowledge_endpoint = ListOrder[k]

\* the step sent one request, a GET, and its answer was usable: the listing
\* succeeded at that request's path
ListingSucceeds ==
    /\ Len(log') = Len(log) + 1
    /\ IsGet(log'[Len(log')])
    /\ hist' # <<>>
    /\ ~NoJson(hist'[Len(hist')])

\* the step sent a request and its answer was unusable: the candidate failed
CandidateFails ==
    /\ Len(log') > Len(log)
    /\ hist' # <<>>
    /\ NoJson(hist'[Len(hist')])

\* C21: after any sequence of list, resolve, create, upload, link and batch
\* calls on one client the cached endpoint is unset or one of
\* /api/v1/workspace/knowledge, /api/v1/knowledges, /api/v1/knowledge; only a
\* successful listing or a successful creation changes it, and a call in
\* which every candidate fails leaves it unchanged.
C21_CachedEndpoint ==
    [][/\ CachedListPath
       /\ CachedListPath'
       /\ _knowledge_endpoint' # _knowledge_endpoint
              => \/ /\ ListingSucceeds
                    /\ _knowledge_endpoint' = log'[Len(log')].url
                 \/ /\ CreateSucceeds
                    /\ _knowledge_endpoint = <<>>
                    /\ _knowledge_endpoint' = BaseOfLast(log')
       /\ CandidateFails => _knowledge_endpoint' = _knowledge_endpoint
       /\ (pc \in {"upload", "upload_return", "link", "link_return",
                   "files", "done", "raised"})
              => _knowledge_endpoint' = _knowledge_endpoint
      ]_vars

\* main's batch on a fresh client: the three list paths failed, creation
\* began at the workspace path and succeeded at its fourth request, to
\* /api/v1/knowledge/create, whose base path is now cached
C21_Witness ==
    /\ cli.by_main
    /\ top = "batch"
    /\ pc = "files"
    /\ Count(IsGet) = 3
    /\ Count(IsCreatePost) = 4
    /\ log[4].url = <<"api", "v1", "workspace", "knowledge", "create">>
    /\ log[7].url = <<"api", "v1", "knowledge", "create">>
    /\ _knowledge_endpoint = <<"api", "v1", "knowledge">>

\* C22: for every file list of length N and every behaviour of the remote
\* in which each request returns or fails, upload_files_to_knowledge
\* terminates and returns a result, having issued at most 3 list GETs, at
\* most 4 create POSTs, at most N upload POSTs and at most 3 * N link POSTs.
\* As a property of every state of a batch: the call does not end by an
\* exception, and the requests sent so far are within these numbers.
C22_BatchReturnsWithinBounds ==
    top = "batch"
        => /\ pc # "raised"
           /\ Count(IsGet) <= 3
           /\ Count(IsCreatePost) <= 4
           /\ Count(IsUploadPost) <= Len(file_paths)
           /\ Count(IsLinkPost) <= 3 * Len(file_paths)

====
